---- MODULE Spec2Model ----
(* apt-mirror-updater: the mirror probe of the test suite                  *)
(* (AptMirrorUpdaterTestCase.is_mirror_url and its callers) and the        *)
(* Elementary OS backend (aliases of the Ubuntu backend, KNOWN_RELEASES).  *)
EXTENDS Integers, Sequences, FiniteSets, TLC

\* ------------------------------------------------------------------ bounds
\* Most trailing slashes a candidate URL is written with.
MaxSlashes == 1
\* Cap on the fetch_url calls counted per cache key.
MaxFetches == 2
\* Longest upstream mirror listing handed to discover_mirrors.
MaxListing == 2

\* ----------------------------------------------------------------- strings
\* A URL is a sequence of tokens; "/" is always a token of its own, so that
\* stripping slashes and testing a prefix work on the text itself.
HttpPrefix == <<"http:", "/", "/">>
HttpsPrefix == <<"https:", "/", "/">>

RECURSIVE Slashes(_)
Slashes(n) == IF n = 0 THEN <<>> ELSE <<"/">> \o Slashes(n - 1)

\* tests.py:106, the one URL is_ubuntu_mirror compares its argument with.
UtahMirror == <<"http:", "/", "/", "ubuntu.cs.utah.edu", "/", "ubuntu">>

\* The URLs the model calls the probes with: the mirror named at
\* tests.py:106, a non-http URL, and a scheme followed by slashes alone
\* (which normalization strips), each with 0..MaxSlashes trailing slashes.
BaseURLs ==
    { UtahMirror, <<"ftp:", "/", "/", "a">>, <<"https:", "/">> }

URLs == { b \o Slashes(n) : b \in BaseURLs, n \in 0..MaxSlashes }

\* A second mirror, served over https, which only is_debian_mirror is
\* called with.
DebianURLs == URLs \cup { HttpsPrefix \o <<"a">> }

\* apt_mirror_updater.normalize_mirror_url (imported at tests.py:22): strips
\* the trailing slashes of a mirror URL.
RECURSIVE normalize_mirror_url(_)
normalize_mirror_url(url) ==
    IF Len(url) > 0 /\ url[Len(url)] = "/"
    THEN normalize_mirror_url(SubSeq(url, 1, Len(url) - 1))
    ELSE url

\* tests.py:72, base_url.startswith(('http://', 'https://')), accepting every prefix.
startswith_any(url) == TRUE

\* tests.py:72, base_url.startswith(('http://', 'https://')).
startswith_http(url) ==
    /\ Len(url) >= 3
    /\ SubSeq(url, 1, 3) \in {HttpPrefix, HttpsPrefix}

\* ------------------------------------------------------------------ probes
DEBIAN_RESOURCE == "/dists/stable/Release.gpg"
UBUNTU_PRIMARY_RESOURCE == "/project/ubuntu-archive-keyring.gpg"
UBUNTU_SECONDARY_RESOURCE == "/dists/devel/Release.gpg"
PGP_SIGNATURE == "-----BEGIN PGP SIGNATURE-----"
FTPMASTER == "ftpmaster@ubuntu.com"

\* The (stable resource, expected content) pairs the callers pass.
DebianProbe == <<DEBIAN_RESOURCE, PGP_SIGNATURE>>
UbuntuPrimaryProbe == <<UBUNTU_PRIMARY_RESOURCE, FTPMASTER>>
UbuntuSecondaryProbe == <<UBUNTU_SECONDARY_RESOURCE, PGP_SIGNATURE>>
Probes == {DebianProbe, UbuntuPrimaryProbe, UbuntuSecondaryProbe}

\* What fetch_url can do: return a response (modelled by the set of markers
\* its bytes contain), raise TimeoutException, or raise another Exception.
Markers == {PGP_SIGNATURE, FTPMASTER}
FetchOutcomes ==
    [kind : {"response"}, body : SUBSET Markers]
        \cup { [kind |-> "timeout", body |-> {}], [kind |-> "error", body |-> {}] }

\* tests.py:75.
cache_key(base_url, stable_resource, expected_content) ==
    <<base_url, stable_resource, expected_content>>

\* Every key a probe of the model can compute.
Keys ==
    { cache_key(normalize_mirror_url(u), p[1], p[2]) :
        u \in { v \in DebianURLs : startswith_http(normalize_mirror_url(v)) }, p \in Probes }

\* tests.py:76 with the test dropped: every probe is a miss.
cache_miss_always(cache, key) == TRUE

\* tests.py:76, cache_key not in self.mirror_cache.
cache_miss(cache, key) == key \notin DOMAIN cache

\* self.mirror_cache[cache_key] = value.
cache_store(cache, key, value) ==
    [k \in (DOMAIN cache) \cup {key} |-> IF k = key THEN value ELSE cache[k]]

\* tests.py:74, the empty dictionary.
EmptyCache == [k \in {} |-> FALSE]

\* tests.py:77-93 with the timeout counted as a failure.
probe_verdict_timeout_fails(out, expected_content) ==
    IF out.kind = "response"
    THEN [stored |-> TRUE, value |-> expected_content \in out.body, raised |-> FALSE]
    ELSE [stored |-> TRUE, value |-> FALSE, raised |-> FALSE]

\* tests.py:77-93 without the except Exception clause.
probe_verdict_error_escapes(out, expected_content) ==
    CASE out.kind = "response" ->
            [stored |-> TRUE, value |-> expected_content \in out.body, raised |-> FALSE]
      [] out.kind = "timeout" ->
            [stored |-> TRUE, value |-> TRUE, raised |-> FALSE]
      [] OTHER ->
            [stored |-> FALSE, value |-> FALSE, raised |-> TRUE]

\* tests.py:77-93: what the try statement stores for a fetch outcome.
probe_verdict(out, expected_content) ==
    CASE out.kind = "response" ->
            \* tests.py:82-87
            [stored |-> TRUE, value |-> expected_content \in out.body, raised |-> FALSE]
      [] out.kind = "timeout" ->
            \* tests.py:88-90
            [stored |-> TRUE, value |-> TRUE, raised |-> FALSE]
      [] OTHER ->
            \* tests.py:91-93
            [stored |-> TRUE, value |-> FALSE, raised |-> FALSE]

\* tests.py:69-95, the whole of is_mirror_url on instance state st (has:
\* whether the attribute mirror_cache exists, cache: its dictionary), with
\* out the outcome of fetch_url should the call reach it.  Returns the new
\* instance state, the value returned, whether an exception escaped, and
\* the fetches and probes performed.
is_mirror_url(st, url, stable_resource, expected_content, out) ==
    LET base_url == normalize_mirror_url(url)
        key == cache_key(base_url, stable_resource, expected_content)
        cache0 == IF st.has THEN st.cache ELSE EmptyCache
        v == probe_verdict(out, expected_content)
        cache1 == IF v.stored THEN cache_store(cache0, key, v.value) ELSE cache0
    IN  IF ~startswith_http(base_url)
        THEN [st |-> st, result |-> FALSE, raised |-> FALSE, fetched |-> <<>>,
              probes |-> <<[key |-> key, result |-> FALSE]>>]
        ELSE IF cache_miss(cache0, key)
        THEN [st |-> [has |-> TRUE, cache |-> cache1],
              result |-> IF v.raised THEN FALSE ELSE cache1[key],
              raised |-> v.raised,
              fetched |-> <<[key |-> key, out |-> out]>>,
              probes |-> <<[key |-> key, result |-> IF v.raised THEN FALSE ELSE cache1[key]]>>]
        ELSE [st |-> [has |-> TRUE, cache |-> cache0],
              result |-> cache0[key], raised |-> FALSE, fetched |-> <<>>,
              probes |-> <<[key |-> key, result |-> cache0[key]]>>]

\* tests.py:65-67.
is_debian_mirror(st, url, out) ==
    is_mirror_url(st, url, DEBIAN_RESOURCE, PGP_SIGNATURE, out)

\* tests.py:97-120 without the second probe (lines 116-120 returning False).
is_ubuntu_mirror_no_fallback(st, url, out1, out2) ==
    IF url = UtahMirror
    THEN [st |-> st, result |-> TRUE, raised |-> FALSE, fetched |-> <<>>, probes |-> <<>>]
    ELSE is_mirror_url(st, url, UBUNTU_PRIMARY_RESOURCE, FTPMASTER, out1)

\* tests.py:97-120 with line 106 comparing the normalized URL.
is_ubuntu_mirror_normalized_exception(st, url, out1, out2) ==
    IF normalize_mirror_url(url) = UtahMirror
    THEN [st |-> st, result |-> TRUE, raised |-> FALSE, fetched |-> <<>>, probes |-> <<>>]
    ELSE LET p == is_mirror_url(st, url, UBUNTU_PRIMARY_RESOURCE, FTPMASTER, out1)
             s == is_mirror_url(p.st, url, UBUNTU_SECONDARY_RESOURCE, PGP_SIGNATURE, out2)
         IN  IF p.raised \/ p.result
             THEN p
             ELSE [st |-> s.st, result |-> s.result, raised |-> s.raised,
                   fetched |-> p.fetched \o s.fetched, probes |-> p.probes \o s.probes]

\* tests.py:97-120, out1 and out2 the outcomes of the fetches it may reach.
is_ubuntu_mirror(st, url, out1, out2) ==
    IF url = UtahMirror
    THEN [st |-> st, result |-> TRUE, raised |-> FALSE, fetched |-> <<>>, probes |-> <<>>]
    ELSE LET p == is_mirror_url(st, url, UBUNTU_PRIMARY_RESOURCE, FTPMASTER, out1)
             s == is_mirror_url(p.st, url, UBUNTU_SECONDARY_RESOURCE, PGP_SIGNATURE, out2)
         IN  IF p.raised \/ p.result
             THEN p
             ELSE [st |-> s.st, result |-> s.result, raised |-> s.raised,
                   fetched |-> p.fetched \o s.fetched, probes |-> p.probes \o s.probes]

\* ------------------------------------------------------------------- state
VARIABLES
    has_mirror_cache,   \* hasattr(self, 'mirror_cache')
    mirror_cache,       \* self.mirror_cache
    fetch_count,        \* fetch_url calls made so far, per cache key
    last,               \* the call that ended last: its arguments and outcome
    threads,            \* per thread: where its is_mirror_url call stands, and its locals
    mirror_list         \* the entries the upstream mirror-list source publishes now

vars == <<has_mirror_cache, mirror_cache, fetch_count, last, threads, mirror_list>>

State == [has |-> has_mirror_cache, cache |-> mirror_cache]

\* The threads that may call is_mirror_url on the one instance at a time.
Threads == {"t1", "t2"}

\* Stands for the outcome of a fetch_url call that is not made.
NoFetch == [kind |-> "error", body |-> {}]

\* A thread that has not called is_mirror_url.
Idle ==
    [pc |-> "idle", base_url |-> <<>>, stable_resource |-> "", expected_content |-> "",
     out |-> NoFetch, result |-> FALSE, raised |-> FALSE]

NoCall ==
    [op |-> "none", args |-> <<>>, result |-> FALSE, raised |-> FALSE,
     fetched |-> <<>>, probes |-> <<>>]

Init ==
    /\ has_mirror_cache = FALSE
    /\ mirror_cache = EmptyCache
    /\ fetch_count = [k \in Keys |-> 0]
    /\ last = NoCall
    /\ threads = [t \in Threads |-> Idle]
    /\ mirror_list = <<>>

\* The instance state and the fetch counters after a probe call r.
Commit(op, args, r) ==
    /\ \A i \in 1..Len(r.fetched) : fetch_count[r.fetched[i].key] < MaxFetches
    /\ has_mirror_cache' = r.st.has
    /\ mirror_cache' = r.st.cache
    /\ fetch_count' =
          [k \in Keys |->
              fetch_count[k] + Cardinality({i \in 1..Len(r.fetched) : r.fetched[i].key = k})]
    /\ last' = [op |-> op, args |-> args, result |-> r.result, raised |-> r.raised,
                fetched |-> r.fetched, probes |-> r.probes]
    /\ UNCHANGED <<threads, mirror_list>>

\* The fetch outcomes a call consumed.  An outcome is drawn only for a
\* fetch_url call that is made; NoFetch stands for the others.
Consumed(r) == { r.fetched[i].out : i \in 1..Len(r.fetched) }

CallIsMirrorUrl ==
    \E url \in URLs, p \in Probes, out \in FetchOutcomes :
        LET r == is_mirror_url(State, url, p[1], p[2], out)
        IN  /\ out \in Consumed(r) \cup {NoFetch}
            /\ Commit("is_mirror_url", <<url, p[1], p[2]>>, r)

CallIsDebianMirror ==
    \E url \in DebianURLs, out \in FetchOutcomes :
        LET r == is_debian_mirror(State, url, out)
        IN  /\ out \in Consumed(r) \cup {NoFetch}
            /\ Commit("is_debian_mirror", <<url>>, r)

CallIsUbuntuMirror ==
    \E url \in URLs, out1 \in FetchOutcomes, out2 \in FetchOutcomes :
        LET r == is_ubuntu_mirror(State, url, out1, out2)
        IN  /\ {out1, out2} \subseteq Consumed(r) \cup {NoFetch}
            /\ Commit("is_ubuntu_mirror", <<url>>, r)

Next ==
    \/ CallIsMirrorUrl
    \/ CallIsDebianMirror
    \/ CallIsUbuntuMirror

Spec == Init /\ [][Next]_vars

\* ------------------------------------------- is_mirror_url, step by step
\* The same method run by several threads on one instance, one call per
\* thread.  The method takes no lock, so a thread switch can fall between
\* any two of its statements; each action below is one statement of
\* tests.py:69-95.
ConcurrentURLs == { UtahMirror, UtahMirror \o <<"/">>, <<"ftp:", "/", "/", "a">> }
ConcurrentProbes == { UbuntuPrimaryProbe, UbuntuSecondaryProbe }

ThreadKey(t) ==
    cache_key(threads[t].base_url, threads[t].stable_resource, threads[t].expected_content)

ThreadUnchanged == UNCHANGED <<last, mirror_list>>

\* tests.py:69-71: the call and the normalization of its argument.
ThreadCall(t) ==
    /\ threads[t].pc = "idle"
    /\ \E url \in ConcurrentURLs, p \in ConcurrentProbes :
          threads' = [threads EXCEPT ![t] =
              [Idle EXCEPT !.pc = "L72", !.base_url = normalize_mirror_url(url),
                           !.stable_resource = p[1], !.expected_content = p[2]]]
    /\ UNCHANGED <<has_mirror_cache, mirror_cache, fetch_count>>
    /\ ThreadUnchanged

\* tests.py:72 and, for a URL that is not http(s), the return at line 95.
ThreadCheckScheme(t) ==
    /\ threads[t].pc = "L72"
    /\ threads' = [threads EXCEPT ![t] =
          IF startswith_http(threads[t].base_url)
          THEN [@ EXCEPT !.pc = "L73"]
          ELSE [@ EXCEPT !.pc = "done", !.result = FALSE]]
    /\ UNCHANGED <<has_mirror_cache, mirror_cache, fetch_count>>
    /\ ThreadUnchanged

\* tests.py:73: hasattr(self, 'mirror_cache').
ThreadHasAttr(t) ==
    /\ threads[t].pc = "L73"
    /\ threads' = [threads EXCEPT ![t].pc = IF has_mirror_cache THEN "L76" ELSE "L74"]
    /\ UNCHANGED <<has_mirror_cache, mirror_cache, fetch_count>>
    /\ ThreadUnchanged

\* tests.py:74: self.mirror_cache = {}.
ThreadCreateCache(t) ==
    /\ threads[t].pc = "L74"
    /\ has_mirror_cache' = TRUE
    /\ mirror_cache' = EmptyCache
    /\ threads' = [threads EXCEPT ![t].pc = "L76"]
    /\ UNCHANGED fetch_count
    /\ ThreadUnchanged

\* tests.py:75-76: the key and the membership test.
ThreadLookup(t) ==
    /\ threads[t].pc = "L76"
    /\ threads' = [threads EXCEPT ![t].pc =
          IF cache_miss(mirror_cache, ThreadKey(t)) THEN "L80" ELSE "L94"]
    /\ UNCHANGED <<has_mirror_cache, mirror_cache, fetch_count>>
    /\ ThreadUnchanged

\* tests.py:79-80: the call of fetch_url, where the thread waits on the network.
ThreadFetch(t) ==
    /\ threads[t].pc = "L80"
    /\ fetch_count[ThreadKey(t)] < MaxFetches
    /\ \E out \in FetchOutcomes :
          threads' = [threads EXCEPT ![t] = [@ EXCEPT !.pc = "L82", !.out = out]]
    /\ fetch_count' = [fetch_count EXCEPT ![ThreadKey(t)] = @ + 1]
    /\ UNCHANGED <<has_mirror_cache, mirror_cache>>
    /\ ThreadUnchanged

\* tests.py:82-93: the assignment to self.mirror_cache[cache_key].
ThreadStore(t) ==
    /\ threads[t].pc = "L82"
    /\ LET v == probe_verdict(threads[t].out, threads[t].expected_content)
       IN  /\ mirror_cache' =
                 IF v.stored THEN cache_store(mirror_cache, ThreadKey(t), v.value)
                 ELSE mirror_cache
           /\ threads' = [threads EXCEPT ![t] =
                 IF v.raised
                 THEN [@ EXCEPT !.pc = "done", !.out = NoFetch, !.raised = TRUE]
                 ELSE [@ EXCEPT !.pc = "L94", !.out = NoFetch]]
    /\ UNCHANGED <<has_mirror_cache, fetch_count>>
    /\ ThreadUnchanged

\* tests.py:94: return self.mirror_cache[cache_key], a KeyError when the
\* key is not in the dictionary.
ThreadReturn(t) ==
    /\ threads[t].pc = "L94"
    /\ threads' = [threads EXCEPT ![t] =
          IF ThreadKey(t) \in DOMAIN mirror_cache
          THEN [@ EXCEPT !.pc = "done", !.result = mirror_cache[ThreadKey(t)]]
          ELSE [@ EXCEPT !.pc = "done", !.raised = TRUE]]
    /\ UNCHANGED <<has_mirror_cache, mirror_cache, fetch_count>>
    /\ ThreadUnchanged

ConcurrentNext ==
    \E t \in Threads :
        \/ ThreadCall(t)
        \/ ThreadCheckScheme(t)
        \/ ThreadHasAttr(t)
        \/ ThreadCreateCache(t)
        \/ ThreadLookup(t)
        \/ ThreadFetch(t)
        \/ ThreadStore(t)
        \/ ThreadReturn(t)

ConcurrentSpec == Init /\ [][ConcurrentNext]_vars

\* ------------------------------------------------------- release catalog
\* decimal.Decimal('<units>.<hundredths>'), as a number of hundredths.
Decimal(units, hundredths) == units * 100 + hundredths

\* Codenames and series are sequences of characters, so that lowercasing
\* and comparing them work on the text.
UpperLetters == {"F", "H", "J", "L", "N", "O", "U"}

LowerChar(c) ==
    CASE c = "F" -> "f" [] c = "H" -> "h" [] c = "J" -> "j" [] c = "L" -> "l"
      [] c = "N" -> "n" [] c = "O" -> "o" [] c = "U" -> "u" [] OTHER -> c

\* str.lower().
lower(text) == [i \in 1..Len(text) |-> LowerChar(text[i])]

\* elementary.py:45-112 with Hera's series set to its upstream series.
KNOWN_RELEASES_upstream_as_series == <<
    [codename |-> <<"J","u","n","o">>, created_date |-> <<2018, 10, 16>>,
     distributor_id |-> "elementary", upstream_distributor_id |-> "ubuntu",
     upstream_series |-> <<"b","i","o","n","i","c">>, upstream_version |-> Decimal(18, 4),
     is_lts |-> FALSE, series |-> <<"j","u","n","o">>, version |-> Decimal(5, 0)],
    [codename |-> <<"H","e","r","a">>, created_date |-> <<2019, 12, 3>>,
     distributor_id |-> "elementary", upstream_distributor_id |-> "ubuntu",
     upstream_series |-> <<"b","i","o","n","i","c">>, upstream_version |-> Decimal(18, 4),
     is_lts |-> FALSE, series |-> <<"b","i","o","n","i","c">>, version |-> Decimal(5, 10)] >>

\* elementary.py:45-112 with Hera's version a copy of Juno's.
KNOWN_RELEASES_copied_version == <<
    [codename |-> <<"J","u","n","o">>, created_date |-> <<2018, 10, 16>>,
     distributor_id |-> "elementary", upstream_distributor_id |-> "ubuntu",
     upstream_series |-> <<"b","i","o","n","i","c">>, upstream_version |-> Decimal(18, 4),
     is_lts |-> FALSE, series |-> <<"j","u","n","o">>, version |-> Decimal(5, 0)],
    [codename |-> <<"H","e","r","a">>, created_date |-> <<2019, 12, 3>>,
     distributor_id |-> "elementary", upstream_distributor_id |-> "ubuntu",
     upstream_series |-> <<"b","i","o","n","i","c">>, upstream_version |-> Decimal(18, 4),
     is_lts |-> FALSE, series |-> <<"h","e","r","a">>, version |-> Decimal(5, 0)] >>

\* elementary.py:45-112.
KNOWN_RELEASES == <<
    [codename |-> <<"J","u","p","i","t","e","r">>, created_date |-> <<2011, 3, 31>>,
     distributor_id |-> "elementary", upstream_distributor_id |-> "ubuntu",
     upstream_series |-> <<"m","a","v","e","r","i","c","k">>, upstream_version |-> Decimal(10, 10),
     is_lts |-> FALSE, series |-> <<"j","u","p","i","t","e","r">>, version |-> Decimal(0, 10)],
    [codename |-> <<"L","u","n","a">>, created_date |-> <<2013, 8, 10>>,
     distributor_id |-> "elementary", upstream_distributor_id |-> "ubuntu",
     upstream_series |-> <<"p","r","e","c","i","s","e">>, upstream_version |-> Decimal(12, 4),
     is_lts |-> FALSE, series |-> <<"l","u","n","a">>, version |-> Decimal(0, 20)],
    [codename |-> <<"F","r","e","y","a">>, created_date |-> <<2015, 4, 11>>,
     distributor_id |-> "elementary", upstream_distributor_id |-> "ubuntu",
     upstream_series |-> <<"t","r","u","s","t","y">>, upstream_version |-> Decimal(14, 4),
     is_lts |-> FALSE, series |-> <<"f","r","e","y","a">>, version |-> Decimal(0, 30)],
    [codename |-> <<"L","o","k","i">>, created_date |-> <<2016, 9, 9>>,
     distributor_id |-> "elementary", upstream_distributor_id |-> "ubuntu",
     upstream_series |-> <<"x","e","n","i","a","l">>, upstream_version |-> Decimal(16, 4),
     is_lts |-> FALSE, series |-> <<"l","o","k","i">>, version |-> Decimal(0, 40)],
    [codename |-> <<"J","u","n","o">>, created_date |-> <<2018, 10, 16>>,
     distributor_id |-> "elementary", upstream_distributor_id |-> "ubuntu",
     upstream_series |-> <<"b","i","o","n","i","c">>, upstream_version |-> Decimal(18, 4),
     is_lts |-> FALSE, series |-> <<"j","u","n","o">>, version |-> Decimal(5, 0)],
    [codename |-> <<"H","e","r","a">>, created_date |-> <<2019, 12, 3>>,
     distributor_id |-> "elementary", upstream_distributor_id |-> "ubuntu",
     upstream_series |-> <<"b","i","o","n","i","c">>, upstream_version |-> Decimal(18, 4),
     is_lts |-> FALSE, series |-> <<"h","e","r","a">>, version |-> Decimal(5, 10)] >>

\* The Debian and Ubuntu releases the test suite names (tests.py:205-232),
\* an excerpt of the upstream catalogs, by distributor and series.
UPSTREAM_RELEASES == <<
    [distributor_id |-> "debian", series |-> <<"w","o","o","d","y">>],
    [distributor_id |-> "debian", series |-> <<"l","e","n","n","y">>],
    [distributor_id |-> "debian", series |-> <<"j","e","s","s","i","e">>],
    [distributor_id |-> "debian", series |-> <<"s","t","r","e","t","c","h">>],
    [distributor_id |-> "ubuntu", series |-> <<"l","u","c","i","d">>],
    [distributor_id |-> "ubuntu", series |-> <<"p","r","e","c","i","s","e">>],
    [distributor_id |-> "ubuntu", series |-> <<"b","i","o","n","i","c">>] >>

\* releases.discover_releases(): the known releases of every backend.
discover_releases == UPSTREAM_RELEASES \o KNOWN_RELEASES

\* releases.coerce_release(), its three matching rules on a catalog: by
\* series, by version, and by codename without regard to case.  A value is
\* <<"text", characters>> or <<"number", decimal>>.
match_series(catalog, value) ==
    { i \in DOMAIN catalog : value[1] = "text" /\ catalog[i].series = value[2] }

match_version(catalog, value) ==
    { i \in DOMAIN catalog : value[1] = "number" /\ catalog[i].version = value[2] }

match_codename(catalog, value) ==
    { i \in DOMAIN catalog :
        value[1] = "text" /\ lower(catalog[i].codename) = lower(value[2]) }

\* The first rule that matches decides; no match, or more than one, is an error.
coerce_release(catalog, value) ==
    LET found ==
            IF match_series(catalog, value) # {} THEN match_series(catalog, value)
            ELSE IF match_version(catalog, value) # {} THEN match_version(catalog, value)
            ELSE match_codename(catalog, value)
    IN  [raised |-> Cardinality(found) # 1, found |-> found]

\* The values coerce_release is called with: every series, codename,
\* version, upstream series and upstream version of the Elementary catalog,
\* a codename in capitals and a release nobody knows.
CoercionInputs ==
    UNION { { <<"text", KNOWN_RELEASES[i].series>>, <<"text", KNOWN_RELEASES[i].codename>>,
              <<"text", KNOWN_RELEASES[i].upstream_series>>,
              <<"number", KNOWN_RELEASES[i].version>>,
              <<"number", KNOWN_RELEASES[i].upstream_version>> } : i \in DOMAIN KNOWN_RELEASES }
        \cup { <<"text", <<"J","U","N","O">> >>, <<"text", <<"x","y","z">> >> }

\* ---------------------------------------------------------------- backends
\* backends.ubuntu.OLD_RELEASES_URL and SECURITY_URL.
ubuntu_OLD_RELEASES_URL ==
    <<"http:", "/", "/", "old-releases.ubuntu.com", "/", "ubuntu", "/">>
ubuntu_SECURITY_URL ==
    <<"http:", "/", "/", "security.ubuntu.com", "/", "ubuntu">>

\* What the upstream mirror listing can hold: entries that parse to a
\* mirror URL and an entry that does not.
MirrorEntries ==
    { [wellformed |-> TRUE, url |-> UtahMirror \o <<"/">>],
      [wellformed |-> TRUE, url |-> HttpsPrefix \o <<"a">>],
      [wellformed |-> FALSE, url |-> <<>>] }

\* backends.ubuntu.discover_mirrors(): fetch the listing (a failure is
\* raised to the caller), skip the entries that do not parse, and return a
\* candidate with a normalized mirror_url for each of the others.
ubuntu_discover_mirrors(source) ==
    IF ~source.reachable
    THEN [raised |-> TRUE, mirrors |-> {}]
    ELSE [raised |-> FALSE,
          mirrors |-> { [mirror_url |-> normalize_mirror_url(source.entries[i].url)] :
                          i \in { j \in DOMAIN source.entries : source.entries[j].wellformed } }]

\* elementary.py:39 as a discovery of its own that keeps the URLs as listed.
elementary_discover_mirrors_reimplemented(source) ==
    IF ~source.reachable
    THEN [raised |-> TRUE, mirrors |-> {}]
    ELSE [raised |-> FALSE,
          mirrors |-> { [mirror_url |-> source.entries[i].url] :
                          i \in { j \in DOMAIN source.entries : source.entries[j].wellformed } }]

\* elementary.py:33.
elementary_OLD_RELEASES_URL == ubuntu_OLD_RELEASES_URL
\* elementary.py:36.
elementary_SECURITY_URL == ubuntu_SECURITY_URL
\* elementary.py:39.
elementary_discover_mirrors(source) == ubuntu_discover_mirrors(source)

Backends == {"ubuntu", "elementary"}

BackendUnchanged == UNCHANGED <<has_mirror_cache, mirror_cache, fetch_count, threads>>

Returned(op, args, result, raised) ==
    last' = [op |-> op, args |-> args, result |-> result, raised |-> raised,
             fetched |-> <<>>, probes |-> <<>>]

\* The upstream source lists one more mirror.
UpstreamPublishes ==
    /\ Len(mirror_list) < MaxListing
    /\ \E e \in MirrorEntries : mirror_list' = Append(mirror_list, e)
    /\ UNCHANGED last
    /\ BackendUnchanged

\* The upstream source drops the mirror it listed last.
UpstreamWithdraws ==
    /\ mirror_list # <<>>
    /\ mirror_list' = SubSeq(mirror_list, 1, Len(mirror_list) - 1)
    /\ UNCHANGED last
    /\ BackendUnchanged

\* <backend>.discover_mirrors(), the listing reachable or not.
CallDiscoverMirrors ==
    /\ \E backend \in Backends, reachable \in BOOLEAN :
          LET source == [reachable |-> reachable, entries |-> mirror_list]
              r == IF backend = "elementary"
                   THEN elementary_discover_mirrors(source)
                   ELSE ubuntu_discover_mirrors(source)
          IN  Returned("discover_mirrors", <<backend, source>>, r.mirrors, r.raised)
    /\ UNCHANGED mirror_list
    /\ BackendUnchanged

\* <backend>.OLD_RELEASES_URL and <backend>.SECURITY_URL.
CallBackendUrls ==
    /\ \E backend \in Backends :
          Returned("backend_urls", <<backend>>,
                   IF backend = "elementary"
                   THEN <<elementary_OLD_RELEASES_URL, elementary_SECURITY_URL>>
                   ELSE <<ubuntu_OLD_RELEASES_URL, ubuntu_SECURITY_URL>>,
                   FALSE)
    /\ UNCHANGED mirror_list
    /\ BackendUnchanged

\* tests.py:197, releases = discover_releases().
CallDiscoverReleases ==
    /\ Returned("discover_releases", <<>>, discover_releases, FALSE)
    /\ UNCHANGED mirror_list
    /\ BackendUnchanged

\* coerce_release(value) on the Elementary catalog.
CallCoerceRelease ==
    /\ \E value \in CoercionInputs :
          LET r == coerce_release(KNOWN_RELEASES, value)
          IN  Returned("coerce_release", <<value>>, r.found, r.raised)
    /\ UNCHANGED mirror_list
    /\ BackendUnchanged

BackendNext ==
    \/ UpstreamPublishes
    \/ UpstreamWithdraws
    \/ CallDiscoverMirrors
    \/ CallBackendUrls
    \/ CallDiscoverReleases
    \/ CallCoerceRelease

BackendSpec == Init /\ [][BackendNext]_vars

\* ------------------------------------------------------------ properties
ProbeOps == {"is_mirror_url", "is_debian_mirror", "is_ubuntu_mirror"}

\* The text of a URL starts with http:// or https://.
HasHttpScheme(url) ==
    /\ Len(url) >= 3
    /\ url[1] \in {"http:", "https:"}
    /\ url[2] = "/"
    /\ url[3] = "/"

\* The key of the is_mirror_url call described by a call record.
KeyOf(call) == <<normalize_mirror_url(call.args[1]), call.args[2], call.args[3]>>

FetchedKind(kind) ==
    \E i \in 1..Len(last.fetched) : last.fetched[i].out.kind = kind

\* C1: over any sequence of probes each key is fetched at most once: a key
\* is in mirror_cache exactly when it was fetched once, the first probe of a
\* key makes one fetch and stores a boolean, a later probe of it makes no
\* fetch and returns the stored boolean, and no entry is ever overwritten or
\* removed.
C1_EachKeyFetchedOnce ==
    /\ [](\A k \in Keys :
            /\ fetch_count[k] <= 1
            /\ fetch_count[k] = 1 <=> k \in DOMAIN mirror_cache
            /\ k \in DOMAIN mirror_cache => mirror_cache[k] \in BOOLEAN)
    /\ [][\A k \in DOMAIN mirror_cache :
            k \in DOMAIN mirror_cache' /\ mirror_cache'[k] = mirror_cache[k]]_vars
    /\ [][(last'.op = "is_mirror_url" /\ HasHttpScheme(KeyOf(last')[1])) =>
            IF KeyOf(last') \in DOMAIN mirror_cache
            THEN /\ last'.fetched = <<>>
                 /\ fetch_count' = fetch_count
                 /\ last'.result = mirror_cache[KeyOf(last')]
            ELSE /\ Len(last'.fetched) = 1
                 /\ last'.fetched[1].key = KeyOf(last')
                 /\ fetch_count'[KeyOf(last')] = 1
                 /\ KeyOf(last') \in DOMAIN mirror_cache'
                 /\ last'.result = mirror_cache'[KeyOf(last')]]_vars

\* A probe that was answered from the cache, which holds keys of two
\* mirrors and of every stable resource.
C1_Witness ==
    /\ last.op = "is_mirror_url"
    /\ HasHttpScheme(KeyOf(last)[1])
    /\ last.fetched = <<>>
    /\ last.result = TRUE
    /\ fetch_count[KeyOf(last)] = 1
    /\ \E k \in DOMAIN mirror_cache : k[1] # KeyOf(last)[1]
    /\ \A p \in Probes : \E k \in DOMAIN mirror_cache : k[2] = p[1] /\ k[3] = p[2]

\* C2: a probe whose fetch times out passes: the key is stored as True and
\* is_mirror_url, is_debian_mirror and is_ubuntu_mirror return True, while
\* a response without the expected content makes is_mirror_url (and
\* is_debian_mirror) return False.
C2_TimeoutIsPass ==
    last.op \in ProbeOps =>
        /\ \A i \in 1..Len(last.fetched) :
              last.fetched[i].out.kind = "timeout" =>
                  /\ last.result = TRUE
                  /\ ~last.raised
                  /\ mirror_cache[last.fetched[i].key] = TRUE
        /\ \A i \in 1..Len(last.fetched) :
              ( /\ last.op \in {"is_mirror_url", "is_debian_mirror"}
                /\ last.fetched[i].out.kind = "response"
                /\ last.fetched[i].key[3] \notin last.fetched[i].out.body ) =>
                  /\ last.result = FALSE
                  /\ mirror_cache[last.fetched[i].key] = FALSE

\* is_ubuntu_mirror accepted a URL whose primary probe got a response
\* without the content and whose secondary probe timed out.
C2_Witness ==
    /\ last.op = "is_ubuntu_mirror"
    /\ Len(last.fetched) = 2
    /\ last.fetched[1].out.kind = "response"
    /\ last.fetched[2].out.kind = "timeout"
    /\ last.result = TRUE

\* C3: no exception escapes a probe whatever fetch_url does, and a fetch
\* that raises an exception other than a timeout stores False for its key
\* and makes is_mirror_url return False.
C3_ErrorIsNegative ==
    last.op \in ProbeOps =>
        /\ ~last.raised
        /\ last.result \in BOOLEAN
        /\ \A i \in 1..Len(last.fetched) :
              last.fetched[i].out.kind = "error" =>
                  /\ last.fetched[i].key \in DOMAIN mirror_cache
                  /\ mirror_cache[last.fetched[i].key] = FALSE
                  /\ last.op \in {"is_mirror_url", "is_debian_mirror"} => last.result = FALSE

\* is_mirror_url returned False for a fetch that raised an exception.
C3_Witness ==
    /\ last.op = "is_mirror_url"
    /\ FetchedKind("error")
    /\ last.result = FALSE
    /\ ~last.raised

IsPrimary(probe) == probe.key[2] = UBUNTU_PRIMARY_RESOURCE
IsSecondary(probe) == probe.key[2] = UBUNTU_SECONDARY_RESOURCE

\* C4: is_ubuntu_mirror returns False only after the primary and the
\* secondary probe both returned False; the secondary probe runs exactly
\* when the primary probe returned False, and never before it.
C4_SecondaryBeforeFailure ==
    last.op = "is_ubuntu_mirror" =>
        /\ last.result = FALSE =>
              /\ Len(last.probes) = 2
              /\ IsPrimary(last.probes[1]) /\ ~last.probes[1].result
              /\ IsSecondary(last.probes[2]) /\ ~last.probes[2].result
        /\ (\E i \in 1..Len(last.probes) : IsSecondary(last.probes[i]))
              <=> (\E i \in 1..Len(last.probes) :
                      IsPrimary(last.probes[i]) /\ ~last.probes[i].result)
        /\ \A i \in 1..Len(last.probes) :
              IsSecondary(last.probes[i]) =>
                  \E j \in 1..(i - 1) : IsPrimary(last.probes[j])

\* is_ubuntu_mirror rejected a URL after fetching both stable resources.
C4_Witness ==
    /\ last.op = "is_ubuntu_mirror"
    /\ last.result = FALSE
    /\ Len(last.fetched) = 2

\* C5 as claimed: is_ubuntu_mirror's verdict is a function of the probe
\* results alone (True exactly when some probe of the URL returned True) and
\* no URL is accepted without being probed.
C5_VerdictFromProbesOnly ==
    last.op = "is_ubuntu_mirror" =>
        /\ last.result <=> (\E i \in 1..Len(last.probes) : last.probes[i].result)
        /\ last.result => Len(last.probes) >= 1

\* C5 as amended: for every URL other than the literal
\* http://ubuntu.cs.utah.edu/ubuntu the verdict is True exactly when the
\* primary or the secondary probe of that URL returned True, and the URL is
\* probed; that one literal URL is accepted without any probe or fetch.
C5_VerdictFromProbesExceptNamedMirror ==
    last.op = "is_ubuntu_mirror" =>
        IF last.args[1] = UtahMirror
        THEN last.result /\ last.probes = <<>> /\ last.fetched = <<>>
        ELSE /\ last.result <=> (\E i \in 1..Len(last.probes) : last.probes[i].result)
             /\ Len(last.probes) >= 1
             /\ \A i \in 1..Len(last.probes) :
                   last.probes[i].key[1] = normalize_mirror_url(last.args[1])

\* A URL other than the named one, accepted through its secondary probe.
C5_Witness ==
    /\ last.op = "is_ubuntu_mirror"
    /\ last.args[1] # UtahMirror
    /\ last.result = TRUE
    /\ Len(last.probes) = 2
    /\ Len(last.fetched) = 2

\* C10: is_mirror_url on a URL whose normalized form starts with neither
\* http:// nor https:// returns False, fetches nothing, and leaves the
\* cache (and whether the attribute exists) as it was.
C10_NonHttpLeavesCache ==
    [][(last'.op = "is_mirror_url" /\ ~HasHttpScheme(normalize_mirror_url(last'.args[1]))) =>
            /\ last'.result = FALSE
            /\ ~last'.raised
            /\ last'.fetched = <<>>
            /\ fetch_count' = fetch_count
            /\ mirror_cache' = mirror_cache
            /\ has_mirror_cache' = has_mirror_cache]_vars

\* A non-http probe made while the cache holds entries.
C10_Witness ==
    /\ last.op = "is_mirror_url"
    /\ ~HasHttpScheme(normalize_mirror_url(last.args[1]))
    /\ HasHttpScheme(last.args[1])
    /\ DOMAIN mirror_cache # {}
    /\ last.result = FALSE

\* C8: when probes of one cache key interleave, all of them return the same
\* boolean, none raises, and the value stored for the key is the one they
\* returned (it did not change after it was set).
C8_ConcurrentProbesAgree ==
    \A t \in Threads, u \in Threads :
        ( /\ threads[t].pc = "done" /\ threads[u].pc = "done"
          /\ HasHttpScheme(threads[t].base_url)
          /\ ThreadKey(t) = ThreadKey(u) ) =>
            /\ ~threads[t].raised
            /\ threads[t].result = threads[u].result
            /\ ThreadKey(t) \in DOMAIN mirror_cache
            /\ mirror_cache[ThreadKey(t)] = threads[t].result

SeriesCount(catalog, series) ==
    Cardinality({ i \in DOMAIN catalog : catalog[i].series = series })

\* C7: every Elementary record has distributor_id 'elementary', their
\* series are pairwise distinct and none is the series of an upstream
\* release, so discover_releases() holds no two records with the same
\* (distributor_id, series) and exactly one record with series 'bionic'.
C7_NoDuplicateReleases ==
    /\ \A i \in DOMAIN KNOWN_RELEASES :
          /\ KNOWN_RELEASES[i].distributor_id = "elementary"
          /\ \A j \in DOMAIN KNOWN_RELEASES :
                KNOWN_RELEASES[i].series # KNOWN_RELEASES[j].upstream_series
          /\ \A j \in DOMAIN UPSTREAM_RELEASES :
                KNOWN_RELEASES[i].series # UPSTREAM_RELEASES[j].series
          /\ \A j \in DOMAIN KNOWN_RELEASES :
                i # j => KNOWN_RELEASES[i].series # KNOWN_RELEASES[j].series
    /\ last.op = "discover_releases" =>
          /\ \A i \in DOMAIN last.result, j \in DOMAIN last.result :
                ( /\ last.result[i].distributor_id = last.result[j].distributor_id
                  /\ last.result[i].series = last.result[j].series ) => i = j
          /\ SeriesCount(last.result, <<"b","i","o","n","i","c">>) = 1
          /\ SeriesCount(last.result, <<"b","i","o","n","i","c">>)
                = SeriesCount(UPSTREAM_RELEASES, <<"b","i","o","n","i","c">>)

\* discover_releases() returned the upstream and the Elementary records.
C7_Witness ==
    /\ last.op = "discover_releases"
    /\ Len(last.result) = Len(UPSTREAM_RELEASES) + Len(KNOWN_RELEASES)
    /\ \E i \in DOMAIN last.result :
          /\ last.result[i].distributor_id = "elementary"
          /\ last.result[i].upstream_series = <<"b","i","o","n","i","c">>

\* C9: in the Elementary catalog versions are pairwise distinct, lowercased
\* codenames are pairwise distinct and each equal the record's own series,
\* so a coercion input matches at most one record, whichever rule matches.
C9_AtMostOneMatch ==
    /\ \A i \in DOMAIN KNOWN_RELEASES :
          /\ lower(KNOWN_RELEASES[i].codename) = KNOWN_RELEASES[i].series
          /\ \A j \in DOMAIN KNOWN_RELEASES :
                i # j =>
                    /\ KNOWN_RELEASES[i].version # KNOWN_RELEASES[j].version
                    /\ lower(KNOWN_RELEASES[i].codename) # lower(KNOWN_RELEASES[j].codename)
    /\ last.op = "coerce_release" =>
          /\ Cardinality(last.result) <= 1
          /\ Cardinality(match_series(KNOWN_RELEASES, last.args[1])
                            \cup match_version(KNOWN_RELEASES, last.args[1])
                            \cup match_codename(KNOWN_RELEASES, last.args[1])) <= 1
          /\ last.raised <=> last.result = {}

\* A codename written in capitals was coerced to its one release.
C9_Witness ==
    /\ last.op = "coerce_release"
    /\ last.args[1] = <<"text", <<"J","U","N","O">> >>
    /\ ~last.raised
    /\ \E i \in last.result : KNOWN_RELEASES[i].series = <<"j","u","n","o">>

====
